---- MODULE Spec2Model ----
(***************************************************************************)
(* Model of scripts/sync-cumind-docs.py: the CuMind documentation sync.    *)
(* Text (file names, file contents, titles, nav paths) is a sequence of    *)
(* one-character strings, so that startswith/endswith/replace/title and    *)
(* sorted() are computed character by character as Python computes them.   *)
(***************************************************************************)
EXTENDS Naturals, Sequences, FiniteSets

VARIABLES env, dirExists, store, config, pc, md_files, idx,
          configBefore, rewritten, prevValid, prevStore, initOk

vars == <<env, dirExists, store, config, pc, md_files, idx,
          configBefore, rewritten, prevValid, prevStore, initOk>>

\* Longest top-level nav list of the mkdocs.yml a run may start from.
MaxNav == 2

(***************************************************************************)
(* Text                                                                    *)
(***************************************************************************)
Lowers == <<"a","b","c","d","e","f","g","h","i","j","k","l","m",
            "n","o","p","q","r","s","t","u","v","w","x","y","z">>
Uppers == <<"A","B","C","D","E","F","G","H","I","J","K","L","M",
            "N","O","P","Q","R","S","T","U","V","W","X","Y","Z">>

\* The characters in code-point order: "\n" < " " < "-" < "." < "/" < ":"
\* < "A".."Z" < "_" < "a".."z".
Ascii == <<"\n", " ", "-", ".", "/", ":">> \o Uppers \o <<"_">> \o Lowers

Ord(c) == CHOOSE i \in 1..Len(Ascii) : Ascii[i] = c

IsLower(c) == \E i \in 1..26 : Lowers[i] = c
IsUpper(c) == \E i \in 1..26 : Uppers[i] = c
IsCased(c) == IsLower(c) \/ IsUpper(c)
ToUpper(c) == IF IsLower(c) THEN Uppers[CHOOSE i \in 1..26 : Lowers[i] = c] ELSE c
ToLower(c) == IF IsUpper(c) THEN Lowers[CHOOSE i \in 1..26 : Uppers[i] = c] ELSE c

\* str.startswith / str.endswith
StartsWith(s, p) == Len(s) >= Len(p) /\ SubSeq(s, 1, Len(p)) = p
EndsWith(s, p) == Len(s) >= Len(p) /\ SubSeq(s, Len(s) - Len(p) + 1, Len(s)) = p

\* str.replace(old, new): every non-overlapping occurrence, left to right.
RECURSIVE Replace(_, _, _)
Replace(s, old, new) ==
    IF Len(s) < Len(old) THEN s
    ELSE IF StartsWith(s, old)
         THEN new \o Replace(SubSeq(s, Len(old) + 1, Len(s)), old, new)
         ELSE <<s[1]>> \o Replace(Tail(s), old, new)

\* str.title(): a cased character is upper-cased when the character before
\* it is not cased (or there is none), lower-cased otherwise.
Title(s) ==
    [i \in 1..Len(s) |->
        IF IsCased(s[i])
        THEN IF i > 1 /\ IsCased(s[i-1]) THEN ToLower(s[i]) ELSE ToUpper(s[i])
        ELSE s[i]]

\* Python's order on str: by code point, a proper prefix first.
RECURSIVE StrLess(_, _)
StrLess(s, t) ==
    IF t = <<>> THEN FALSE
    ELSE IF s = <<>> THEN TRUE
    ELSE IF s[1] = t[1] THEN StrLess(Tail(s), Tail(t))
    ELSE Ord(s[1]) < Ord(t[1])

\* sorted(S) for a set of distinct strings.
RECURSIVE Sorted(_)
Sorted(S) ==
    IF S = {} THEN <<>>
    ELSE LET m == CHOOSE x \in S : \A y \in S \ {x} : StrLess(x, y)
         IN <<m>> \o Sorted(S \ {m})

DotMd == <<".","m","d">>
Delim == <<"-","-","-">>
SectionName == "CuMind"
PathPrefix == <<"C","u","M","i","n","d","/">>

(***************************************************************************)
(* The remote repository and the files of the working directory            *)
(***************************************************************************)
NameA == <<"a",".","m","d","_","x",".","m","d">>        \* a.md_x.md
NameB == <<"b","_","c","-","d",".","m","d">>            \* b_c-d.md
NameT == <<"n",".","m","d",".","t","x","t">>            \* n.md.txt
NameOld == <<"o","l","d",".","m","d">>                  \* old.md

RemoteNames == {NameA, NameB, NameT}

TextPlain == <<"-","-","h">>                            \* no front-matter
TextFront == <<"-","-","-","\n","k">>                   \* has front-matter
Texts == {<<>>, TextPlain, TextFront}

\* What one GET of a download_url gives: an error, or the text.
Outcomes == {[ok |-> FALSE, text |-> <<>>]} \cup {[ok |-> TRUE, text |-> t] : t \in Texts}

NoFiles == [n \in {} |-> <<>>]

\* listOk: whether the contents request succeeds; remote: the entries of the
\* listed directory, each with the outcome of its download.
Envs ==
    {[listOk |-> FALSE, remote |-> NoFiles]} \cup
    {[listOk |-> TRUE, remote |-> r] :
        r \in UNION {[S -> Outcomes] : S \in SUBSET RemoteNames}}

\* The working directory before the first run: docs/CuMind absent, empty,
\* or holding files of an earlier sync or of the user.
InitStores ==
    { [exists |-> FALSE, files |-> NoFiles],
      [exists |-> TRUE, files |-> NoFiles],
      [exists |-> TRUE, files |-> [n \in {NameOld} |-> TextPlain]],
      [exists |-> TRUE, files |-> [n \in {NameA, NameT} |-> TextPlain]] }

(***************************************************************************)
(* mkdocs.yml.  A top-level nav item is a plain string or a mapping; of a  *)
(* mapping the model keeps its keys and, under the key CuMind, the list of *)
(* {title: path} entries.                                                  *)
(***************************************************************************)
Entry(t, p) == [title |-> t, path |-> p]

OldSection == <<Entry(<<"O","l","d">>, PathPrefix \o NameOld)>>

ItemStr == [isdict |-> FALSE, keys |-> {}, str |-> "index.md", sect |-> <<>>]
ItemHome == [isdict |-> TRUE, keys |-> {"Home"}, str |-> "", sect |-> <<>>]
ItemStale == [isdict |-> TRUE, keys |-> {SectionName}, str |-> "", sect |-> OldSection]
ItemMulti == [isdict |-> TRUE, keys |-> {SectionName, "Extra"}, str |-> "", sect |-> OldSection]

InitItems == {ItemStr, ItemHome, ItemStale, ItemMulti}

InitConfigs ==
    {[hasNav |-> FALSE, nav |-> <<>>]} \cup
    {[hasNav |-> TRUE, nav |-> n] :
        n \in UNION {[1..k -> InitItems] : k \in 0..MaxNav}}

(***************************************************************************)
(* The functions of the script                                             *)
(***************************************************************************)
\* fetch_docs_from_github: [] on a request error, else the listed entries
\* whose name ends in '.md' (the contents API lists a directory by name).
FetchDocs(e) ==
    IF ~e.listOk THEN <<>>
    ELSE Sorted({n \in DOMAIN e.remote : EndsWith(n, DotMd)})

\* download_file: None on a request error, else response.text.
DownloadFile(e, name) ==
    IF e.remote[name].ok
    THEN [none |-> FALSE, text |-> e.remote[name].text]
    ELSE [none |-> TRUE, text |-> <<>>]

\* `if content:` -- None and the empty string are both false.
Truthy(content) == ~content.none /\ content.text # <<>>

\* clean_cumind_docs_dir: rmtree if present, then mkdir.
CleanDirKeep(st) == st
CleanDir(st) == NoFiles

\* save_doc_file, line 67
SaveTitle(filename) ==
    Title(Replace(Replace(Replace(filename, DotMd, <<>>), <<"_">>, <<" ">>),
                  <<"-">>, <<" ">>))

FrontMatter(title) ==
    <<"-","-","-","\n">> \o <<"t","i","t","l","e",":"," ">> \o title
        \o <<"\n","-","-","-","\n","\n">>

\* save_doc_file: the text written to the file.
SaveContentAlways(filename, content) == FrontMatter(SaveTitle(filename)) \o content
SaveContent(filename, content) ==
    IF ~StartsWith(content, Delim)
    THEN FrontMatter(SaveTitle(filename)) \o content
    ELSE content

\* save_doc_file: open(filepath, 'w') creates or overwrites the file.
SaveDocFile(st, filename, content) ==
    [f \in DOMAIN st \cup {filename} |->
        IF f = filename THEN SaveContent(filename, content) ELSE st[f]]

\* update_mkdocs_nav, line 87
CumindFilesPrefix(st) == Sorted({f \in DOMAIN st : StartsWith(f, DotMd)})
CumindFiles(st) == Sorted({f \in DOMAIN st : EndsWith(f, DotMd)})

\* update_mkdocs_nav, line 96
NavTitle(file) ==
    Title(Replace(Replace(Replace(file, DotMd, <<>>), <<"_">>, <<" ">>),
                  <<"-">>, <<" ">>))

\* update_mkdocs_nav, line 97
NavPathBare(file) == file
NavPath(file) == PathPrefix \o file

\* update_mkdocs_nav, lines 94-98
CumindNav(files) == [i \in 1..Len(files) |-> Entry(NavTitle(files[i]), NavPath(files[i]))]

\* update_mkdocs_nav, line 105: isinstance(item, dict) and 'CuMind' in item
IsCuMindItemSingle(item) == item.isdict /\ item.keys = {SectionName}
IsCuMindItem(item) == item.isdict /\ SectionName \in item.keys

KeepItem(item) == ~IsCuMindItem(item)

RemoveCuMindNone(nav) == nav
RemoveCuMind(nav) == SelectSeq(nav, KeepItem)

SectionItem(cumind_nav) ==
    [isdict |-> TRUE, keys |-> {SectionName}, str |-> "", sect |-> cumind_nav]

\* update_mkdocs_nav, line 108
AddSectionFirst(nav, cumind_nav) == <<SectionItem(cumind_nav)>> \o nav
AddSection(nav, cumind_nav) == Append(nav, SectionItem(cumind_nav))

(***************************************************************************)
(* Reading the state                                                       *)
(***************************************************************************)
\* The .md files of a directory.
MdIn(st) == {f \in DOMAIN st : EndsWith(f, DotMd)}

NavOf(cfg) == IF cfg.hasNav THEN cfg.nav ELSE <<>>

\* A top-level entry keyed CuMind.
HasSectionKey(item) == item.isdict /\ SectionName \in item.keys

SectionCount(nav) == Cardinality({i \in 1..Len(nav) : HasSectionKey(nav[i])})

\* The paths under the key CuMind, over the whole nav, in order.
RECURSIVE SectionPaths(_)
SectionPaths(nav) ==
    IF nav = <<>> THEN <<>>
    ELSE (IF HasSectionKey(Head(nav))
          THEN [i \in 1..Len(Head(nav).sect) |-> Head(nav).sect[i].path]
          ELSE <<>>) \o SectionPaths(Tail(nav))

Range(q) == {q[i] : i \in 1..Len(q)}

\* Every CuMind path of the nav names a file of the directory.
NoDangling(cfg, st) ==
    \A p \in Range(SectionPaths(NavOf(cfg))) : \E f \in DOMAIN st : p = PathPrefix \o f

(***************************************************************************)
(* main(), one action per step                                             *)
(***************************************************************************)
Init ==
    /\ env \in Envs
    /\ \E s \in InitStores : dirExists = s.exists /\ store = s.files
    /\ config \in InitConfigs
    /\ pc = "idle"
    /\ md_files = <<>>
    /\ idx = 1
    /\ configBefore = config
    /\ rewritten = FALSE
    /\ prevValid = FALSE
    /\ prevStore = NoFiles
    /\ initOk = NoDangling(config, store)

\* main() is started; line 121, clean_cumind_docs_dir().  prevStore keeps
\* the Local Store the previous run ended with, when the remote repository
\* has not changed since.
Clean ==
    /\ pc \in {"idle", "done"}
    /\ prevValid' = (pc = "done")
    /\ prevStore' = IF pc = "done" THEN store ELSE NoFiles
    /\ configBefore' = config
    /\ rewritten' = FALSE
    /\ store' = CleanDir(store)
    /\ dirExists' = TRUE
    /\ md_files' = <<>>
    /\ idx' = 1
    /\ pc' = "fetch"
    /\ UNCHANGED <<env, config, initOk>>

\* lines 129-135
Fetch ==
    /\ pc = "fetch"
    /\ md_files' = FetchDocs(env)
    /\ pc' = IF md_files' = <<>> THEN "done" ELSE "loop"
    /\ UNCHANGED <<env, dirExists, store, config, idx, configBefore, rewritten,
                   prevValid, prevStore, initOk>>

\* lines 138-141, one iteration
LoopStep ==
    /\ pc = "loop"
    /\ LET file_info == md_files[idx]
           content == DownloadFile(env, file_info)
       IN store' = IF Truthy(content)
                   THEN SaveDocFile(store, file_info, content.text)
                   ELSE store
    /\ idx' = idx + 1
    /\ pc' = IF idx = Len(md_files) THEN "nav" ELSE "loop"
    /\ UNCHANGED <<env, dirExists, config, md_files, configBefore, rewritten,
                   prevValid, prevStore, initOk>>

\* line 144, update_mkdocs_nav()
UpdateNav ==
    /\ pc = "nav"
    /\ LET cumind_files == CumindFiles(store)
           nav == IF config.hasNav THEN config.nav ELSE <<>>
       IN IF cumind_files = <<>>
          THEN UNCHANGED <<config, rewritten>>
          ELSE /\ config' = [hasNav |-> TRUE,
                             nav |-> AddSection(RemoveCuMind(nav), CumindNav(cumind_files))]
               /\ rewritten' = TRUE
    /\ pc' = "done"
    /\ UNCHANGED <<env, dirExists, store, md_files, idx, configBefore,
                   prevValid, prevStore, initOk>>

\* Between two runs the remote repository, or the outcome of its requests,
\* changes.
RemoteChange ==
    /\ pc = "done"
    /\ env' \in Envs \ {env}
    /\ pc' = "idle"
    /\ UNCHANGED <<dirExists, store, config, md_files, idx, configBefore,
                   rewritten, prevValid, prevStore, initOk>>

Next == Clean \/ Fetch \/ LoopStep \/ UpdateNav \/ RemoteChange

Spec == Init /\ [][Next]_vars

TypeOK ==
    /\ env \in Envs
    /\ dirExists \in BOOLEAN
    /\ pc \in {"idle", "fetch", "loop", "nav", "done"}
    /\ idx \in 1..(Len(md_files) + 1)
    /\ initOk \in BOOLEAN

(***************************************************************************)
(* Properties                                                              *)
(***************************************************************************)
\* update_mkdocs_nav() has been called by the run that just ended.
AfterUpdate == pc = "done" /\ md_files # <<>>

\* The .md entries of the listed directory, and those whose download fails.
ListedMd == {n \in DOMAIN env.remote : EndsWith(n, DotMd)}
FailedMd == {n \in ListedMd : ~env.remote[n].ok}

PathsFor(files) == [i \in 1..Len(files) |-> PathPrefix \o files[i]]

\* C1 as stated: when main() has run twice in a row against the same remote
\* outcomes, the Local Store after the second run equals the one after the
\* first, and nav holds exactly one top-level entry keyed CuMind.
C1_Original ==
    (pc = "done" /\ prevValid) =>
        /\ store = prevStore
        /\ SectionCount(NavOf(config)) = 1

\* C1 amended: the Local Store after the second run equals the one after
\* the first; nav holds exactly one entry keyed CuMind when the run leaves a
\* .md file in the Local Store, and mkdocs.yml is as before the run when it
\* leaves none.
C1_Idempotent ==
    (pc = "done" /\ prevValid) =>
        /\ store = prevStore
        /\ dirExists
        /\ (MdIn(store) # {} => config.hasNav /\ SectionCount(config.nav) = 1)
        /\ (MdIn(store) = {} => config = configBefore)

C1_Witness ==
    /\ pc = "done" /\ prevValid
    /\ Cardinality(DOMAIN store) = 2
    /\ Len(NavOf(config)) > 1

\* C2: after update_mkdocs_nav() is called with a .md file in the Local
\* Store, nav holds exactly one entry keyed CuMind, however many it held
\* before the call.
C2_ExactlyOneSection ==
    (AfterUpdate /\ MdIn(store) # {}) =>
        /\ config.hasNav
        /\ SectionCount(config.nav) = 1

C2_Witness ==
    /\ AfterUpdate /\ MdIn(store) # {}
    /\ SectionCount(NavOf(configBefore)) = 2

\* C3 as stated, for N >= 2: when exactly one of the N listed .md files
\* fails to download, main() ends with exactly the other N-1 files in the
\* Local Store and with exactly their paths, in ascending filename order,
\* under the key CuMind.
C3_Claim ==
    (pc = "done" /\ env.listOk /\ Cardinality(ListedMd) >= 2
                 /\ Cardinality(FailedMd) = 1) =>
        /\ DOMAIN store = ListedMd \ FailedMd
        /\ SectionPaths(NavOf(config)) = PathsFor(Sorted(ListedMd \ FailedMd))

\* C4: when the listing request fails or lists no .md file, main() ends with
\* the Local Store directory present and empty and mkdocs.yml neither
\* changed nor rewritten.
C4_EmptyListing ==
    (pc = "done" /\ (~env.listOk \/ ListedMd = {})) =>
        /\ dirExists
        /\ store = NoFiles
        /\ config = configBefore
        /\ ~rewritten

C4_Witness ==
    /\ pc = "done" /\ ~env.listOk
    /\ store = NoFiles
    /\ SectionCount(NavOf(config)) = 0
    /\ Len(NavOf(config)) = 2

\* C5: every file written by save_doc_file begins with the '---' delimiter:
\* it is the downloaded text itself when that began with the delimiter, and
\* the front-matter block followed by the downloaded text otherwise.
C5_FrontMatter ==
    (pc \in {"fetch", "loop", "nav", "done"}) =>
        \A f \in DOMAIN store :
            LET text == env.remote[f].text
            IN /\ StartsWith(store[f], Delim)
               /\ IF StartsWith(text, Delim)
                  THEN store[f] = text
                  ELSE store[f] =
                         <<"-","-","-","\n","t","i","t","l","e",":"," ">>
                           \o SaveTitle(f) \o <<"\n","-","-","-","\n","\n">> \o text

C5_Witness ==
    /\ pc = "done"
    /\ \E f, g \in DOMAIN store :
          /\ store[f] = env.remote[f].text
          /\ store[g] # env.remote[g].text

\* The nav the run started from holds a single-key CuMind section whose
\* paths are not those of the files now in the Local Store.
StaleBefore ==
    /\ \E i \in 1..Len(NavOf(configBefore)) : NavOf(configBefore)[i] = ItemStale
    /\ Range(SectionPaths(<<ItemStale>>)) # {PathPrefix \o f : f \in MdIn(store)}

\* C6 as stated: update_mkdocs_nav() called on a nav with a stale CuMind
\* section leaves under the key CuMind exactly the paths of the .md files
\* in the Local Store.
C6_Original ==
    (AfterUpdate /\ StaleBefore) =>
        Range(SectionPaths(NavOf(config))) = {PathPrefix \o f : f \in MdIn(store)}

\* C6 amended: the same, when the Local Store holds at least one .md file
\* at the call.
C6_Replaced ==
    (AfterUpdate /\ StaleBefore /\ MdIn(store) # {}) =>
        Range(SectionPaths(NavOf(config))) = {PathPrefix \o f : f \in MdIn(store)}

C6_Witness ==
    /\ AfterUpdate /\ StaleBefore /\ MdIn(store) # {}
    /\ NavOf(configBefore) = <<ItemStale, ItemMulti>>

\* The title as C7 states it: only the trailing '.md' removed, '_' and '-'
\* replaced by a space, title-cased.
C7_Title(filename) ==
    Title(Replace(Replace(SubSeq(filename, 1, Len(filename) - Len(DotMd)),
                          <<"_">>, <<" ">>), <<"-">>, <<" ">>))

\* C7 as stated: the title of every nav entry, and of every front-matter
\* block written, is the filename without its trailing '.md', separators
\* replaced by spaces, title-cased.
C7_Claim ==
    (AfterUpdate /\ rewritten) =>
        LET files == CumindFiles(store)
            sect == config.nav[Len(config.nav)].sect
        IN \A i \in 1..Len(files) :
              /\ sect[i].title = C7_Title(files[i])
              /\ ~StartsWith(env.remote[files[i]].text, Delim) =>
                    store[files[i]] =
                        FrontMatter(C7_Title(files[i])) \o env.remote[files[i]].text

\* C8 as stated: in main() a listed file is in the Local Store exactly when
\* its download succeeded, whatever text was returned.
C8_Claim ==
    (pc \in {"loop", "nav", "done"} /\ md_files # <<>>) =>
        \A i \in 1..Len(md_files) :
            i < idx => (md_files[i] \in DOMAIN store <=> env.remote[md_files[i]].ok)

C9_SingleKey(item) == item.isdict /\ item.keys = {SectionName}
C9_KeepOriginal(item) == ~C9_SingleKey(item)
C9_KeepAmended(item) == ~(item.isdict /\ SectionName \in item.keys)

\* C9 as stated: the rewrite removes exactly the single-key mappings keyed
\* CuMind, keeps every other entry in its order, and appends the new CuMind
\* entry as the last element.
C9_Original ==
    (AfterUpdate /\ rewritten) =>
        LET kept == SelectSeq(NavOf(configBefore), C9_KeepOriginal)
        IN /\ Len(config.nav) = Len(kept) + 1
           /\ SubSeq(config.nav, 1, Len(kept)) = kept
           /\ C9_SingleKey(config.nav[Len(config.nav)])

\* C9 amended: the rewrite removes exactly the mappings that have CuMind
\* among their keys (alone or with other keys), keeps every other entry in
\* its order, and appends the new CuMind entry as the last element.
C9_Frame ==
    (AfterUpdate /\ rewritten) =>
        LET kept == SelectSeq(NavOf(configBefore), C9_KeepAmended)
        IN /\ Len(config.nav) = Len(kept) + 1
           /\ SubSeq(config.nav, 1, Len(kept)) = kept
           /\ C9_SingleKey(config.nav[Len(config.nav)])

C9_Witness ==
    /\ AfterUpdate /\ rewritten
    /\ NavOf(configBefore) = <<ItemMulti, ItemStr>>
    /\ Len(config.nav) = 2

\* C10 as stated: starting from a state without dangling CuMind paths,
\* after every completed run every CuMind path of nav names a file of the
\* Local Store.
C10_Original ==
    (initOk /\ pc = "done") => NoDangling(config, store)

\* C10 amended: after a completed run that leaves at least one .md file in
\* the Local Store, every CuMind path of nav names a file of the Local
\* Store.
C10_NoDangling ==
    (pc = "done" /\ MdIn(store) # {}) => NoDangling(config, store)

C10_Witness ==
    /\ pc = "done" /\ MdIn(store) # {}
    /\ ~NoDangling(configBefore, store)
    /\ Len(SectionPaths(NavOf(config))) = 2
====
